---- MODULE Spec2Model ----
(***************************************************************************)
(* Model of the order-reservation core of eafoods_preorder                 *)
(* (preorder/views.py, preorder/models.py, preorder/serializers.py,        *)
(* preorder/permissions.py).                                               *)
(*                                                                         *)
(* The database tables are the shared state.  Every request is served by   *)
(* a worker; no view opens a transaction or locks a row, so a handler is a *)
(* sequence of separate database statements and the statements of         *)
(* different requests interleave.  A handler's statements that read only   *)
(* the request and the tables no request writes (Product, DeliverySlot,    *)
(* users) are merged with the first statement on a written table that      *)
(* follows them.                                                           *)
(*                                                                         *)
(* Text is a tuple of one-character strings, so that strip(), upper(),     *)
(* iexact, icontains and int() are computed and not assumed.               *)
(***************************************************************************)
EXTENDS Integers, Sequences, FiniteSets, TLC

(***************************************************************************)
(* Bounds of the model.                                                    *)
(***************************************************************************)
\* total number of requests the workers serve in one behaviour
MaxRequests == 3

\* the concurrent request workers
Procs == {"w1", "w2"}

(***************************************************************************)
(* Text: str.strip, str.upper, case-insensitive comparison, int().         *)
(***************************************************************************)
UpperLetters ==
    <<"A","B","C","D","E","F","G","H","I","J","K","L","M",
      "N","O","P","Q","R","S","T","U","V","W","X","Y","Z">>

LowerLetters ==
    <<"a","b","c","d","e","f","g","h","i","j","k","l","m",
      "n","o","p","q","r","s","t","u","v","w","x","y","z">>

DigitChars == <<"0","1","2","3","4","5","6","7","8","9">>

Range(f) == {f[i] : i \in DOMAIN f}

IsAlpha(c) == c \in Range(UpperLetters) \cup Range(LowerLetters)

IsDigit(c) == c \in Range(DigitChars)

IsAlnum(c) == IsAlpha(c) \/ IsDigit(c)

IsSpace(c) == c \in {" ", "\t", "\n"}

IndexIn(c, letters) == CHOOSE i \in DOMAIN letters : letters[i] = c

ToLower(c) ==
    IF c \in Range(UpperLetters) THEN LowerLetters[IndexIn(c, UpperLetters)] ELSE c

ToUpper(c) ==
    IF c \in Range(LowerLetters) THEN UpperLetters[IndexIn(c, LowerLetters)] ELSE c

Lower(s) == [i \in DOMAIN s |-> ToLower(s[i])]

Upper(s) == [i \in DOMAIN s |-> ToUpper(s[i])]

RECURSIVE LStrip(_)
LStrip(s) ==
    IF s # <<>> /\ IsSpace(Head(s)) THEN LStrip(Tail(s)) ELSE s

RECURSIVE RStrip(_)
RStrip(s) ==
    IF s # <<>> /\ IsSpace(s[Len(s)]) THEN RStrip(SubSeq(s, 1, Len(s) - 1)) ELSE s

\* str.strip()
Strip(s) == RStrip(LStrip(s))

\* name__exact: the letters compared as they are
IExactCased(name, s) == name = s

\* name__iexact
IExact(name, s) == Lower(name) = Lower(s)

\* name__contains: the letters compared as they are
IContainsCased(name, s) ==
    \E i \in 1..(Len(name) - Len(s) + 1) :
        SubSeq(name, i, i + Len(s) - 1) = s

\* name__icontains
IContains(name, s) ==
    \E i \in 1..(Len(name) - Len(s) + 1) :
        Lower(SubSeq(name, i, i + Len(s) - 1)) = Lower(s)

RECURSIVE DigitsValue(_)
DigitsValue(s) ==
    IF s = <<>> THEN 0
    ELSE 10 * DigitsValue(SubSeq(s, 1, Len(s) - 1))
         + (IndexIn(s[Len(s)], DigitChars) - 1)

\* int(text): surrounding whitespace, an optional sign, then decimal digits.
\* ok = FALSE stands for ValueError.
IntOfText(s) ==
    LET t == Strip(s)
        signed == t # <<>> /\ Head(t) \in {"+", "-"}
        d == IF signed THEN Tail(t) ELSE t
    IN  IF d # <<>> /\ \A i \in DOMAIN d : IsDigit(d[i])
        THEN [ok |-> TRUE,
              val |-> IF signed /\ Head(t) = "-" THEN 0 - DigitsValue(d)
                      ELSE DigitsValue(d)]
        ELSE [ok |-> FALSE, val |-> 0]

\* int(float) truncates toward zero; the float is given in tenths.
IntOfTenths(n) == IF n >= 0 THEN n \div 10 ELSE 0 - ((0 - n) \div 10)

(***************************************************************************)
(* Users (models.py CustomUser) and the permission classes.                *)
(***************************************************************************)
Anonymous == "anonymous"

Users == {"alice", "bob", "olga", "adam"}

RoleOf(u) ==
    CASE u \in {"alice", "bob"} -> "customer"
      [] u = "olga" -> "ops_manager"
      [] OTHER -> "admin"

Callers == Users \cup {Anonymous}

IsAuthenticated(u) == u \in Users

\* the role is not looked at: every user that is logged in passes
IsAnyUser(u) == IsAuthenticated(u)

\* permissions.py lines 17-27
IsCustomer(u) == IsAuthenticated(u) /\ RoleOf(u) = "customer"

IsOpsManager(u) == IsAuthenticated(u) /\ RoleOf(u) = "ops_manager"

(***************************************************************************)
(* Product and DeliverySlot tables: no request writes them.                *)
(***************************************************************************)
ProductName ==
    << <<"A","p","p","l","e">>,
       <<"B","a","n","a","n","a">>,
       <<"A","p","p","l","e"," ","P","i","e">>,
       <<"B","a","n","d","a","i","d">> >>

Products == DOMAIN ProductName

SLOT_CHOICES ==
    << <<"M","O","R","N","I","N","G">>,
       <<"A","F","T","E","R","N","O","O","N">>,
       <<"E","V","E","N","I","N","G">> >>

Slots == DOMAIN SLOT_CHOICES

\* the rows of StockBalance; a product may have none
StockIds == {1, 2}

InitStock ==
    [s \in StockIds |->
        IF s = 1 THEN [product |-> 1, quantity |-> 10]
                 ELSE [product |-> 2, quantity |-> 5]]

(***************************************************************************)
(* Time of day in seconds; a date is a day number.                         *)
(***************************************************************************)
HMS(h, m, s) == (h * 60 + m) * 60 + s

Today == 0

(***************************************************************************)
(* Request bodies.  A key is present with a value, or absent.              *)
(***************************************************************************)
Field(v) == [present |-> TRUE, val |-> v]

Absent == [present |-> FALSE, val |-> <<>>]

QInt(n) == [present |-> TRUE, kind |-> "int", num |-> n, text |-> <<>>]

QText(t) == [present |-> TRUE, kind |-> "str", num |-> 0, text |-> t]

QTenths(n) == [present |-> TRUE, kind |-> "float", num |-> n, text |-> <<>>]

QNull == [present |-> TRUE, kind |-> "null", num |-> 0, text |-> <<>>]

QAbsent == [present |-> FALSE, kind |-> "int", num |-> 0, text |-> <<>>]

\* request.data.get(key, "")
GetText(f) == IF f.present THEN f.val ELSE <<>>

NameInputs ==
    { Absent,
      Field(<<>>),
      Field(<<" ">>),
      Field(<<"a","p","p","l","e">>),
      Field(<<" ","B","a","n","a","n","a"," ">>),
      Field(<<"B","a","n">>),
      Field(<<"A","p","p","l","e"," ","P","i","e">>),
      Field(<<"P","I","E">>),
      Field(<<"K","i","w","i">>) }

QuantityInputs ==
    { QAbsent, QNull, QInt(0), QInt(-1), QInt(1), QInt(6),
      QText(<<" ","6"," ">>), QText(<<"s","i","x">>), QTenths(5) }

SlotInputs ==
    { Absent,
      Field(<<"m","o","r","n","i","n","g">>),
      Field(<<" ","E","V","E","N","I","N","G"," ">>),
      Field(<<"N","O","O","N">>) }

AddressInputs ==
    { Absent,
      Field(<<" "," ">>),
      Field(<<"1","2","3">>),
      Field(<<"1"," ","M","a","i","n","@">>),
      Field(<<" ","1","2"," ","M","a","i","n"," ","S","t",".",","," ","A","-","4"," ">>) }

PlaceTimes == { HMS(0, 0, 0), HMS(17, 59, 59), HMS(18, 0, 0), HMS(23, 59, 59) }

\* a request: the caller, the clock when it is served, and what it carries
NoRequest ==
    [op |-> "none", user |-> "", now |-> [date |-> Today, time |-> 0],
     pk |-> 0, partial |-> FALSE, data |-> [none |-> TRUE]]

(***************************************************************************)
(* State.                                                                  *)
(***************************************************************************)
VARIABLES
    stock,      \* StockBalance table: row id -> [product, quantity]
    orders,     \* PreOrder table: the sequence of rows, the id is the index
    pc,         \* per worker: the statement its handler is at, or "idle"
    loc,        \* per worker: the handler's local variables
    resp,       \* the last response sent, and the worker that sent it
    started,    \* number of requests begun
    audit,      \* history, per order: what the requests did for it
    touched,    \* history, per product: requests that went to work on it
    seen,       \* history, per kind of request: how many went to work
    req         \* the last request begun, where the requests are told apart

vars == <<stock, orders, pc, loc, resp, started, audit, touched, seen, req>>

\* a plain models.IntegerField: no lower bound on the value
AnyInteger(n) == n \in Int

\* models.PositiveIntegerField: the values the field's validator and the
\* column's CHECK constraint let through
PositiveInteger(n) == n >= 0

NoRow == [id |-> 0, product |-> 0, quantity |-> 0]

NoOrder ==
    [user |-> "", product |-> 0, slot |-> 0, quantity |-> 0,
     delivery_date |-> 0, delivery_address |-> <<>>, is_cancelled |-> FALSE]

\* the validated body of a stock update
NoData ==
    [denied |-> FALSE, status |-> 0, invalid |-> FALSE, has_product |-> FALSE,
     product |-> 0, has_quantity |-> FALSE, quantity |-> 0]

NoLocals ==
    [op |-> "none", user |-> "", product |-> 0, qty |-> 0, slot |-> 0,
     address |-> <<>>, delivery_date |-> 0, stock |-> NoRow, pk |-> 0,
     preorder |-> NoOrder, seq |-> 0, data |-> NoData]

Response(status, kind, error) ==
    [worker |-> "", status |-> status, kind |-> kind, error |-> error,
     available |-> -1, suggestions |-> {}, id |-> 0,
     listed |-> {}, report |-> <<>>]

\* the response r, sent by worker w
Sent(w, r) == [r EXCEPT !.worker = w]

NoResponse == Response(0, "none", "")

Min(S) == CHOOSE x \in S : \A y \in S : x <= y

\* StockBalance.objects.get(product=p): the rows whose product is p
RowsOf(stk, p) == {s \in StockIds : stk[s].product = p}

\* a request is handled by a worker that is free; the workers being alike,
\* by the first of them
Accepts(w) == pc[w] = "idle" /\ (w = "w2" => pc["w1"] # "idle")

Busy(w) == pc[w] # "idle"

\* a request at work whose reads or writes involve product p's stock row
Touches(w, p) ==
    /\ Busy(w)
    /\ \/ loc[w].product = p
       \/ loc[w].preorder.product = p
       \/ loc[w].stock.product = p
       \/ loc[w].stock.id \in StockIds /\ stock[loc[w].stock.id].product = p

(***************************************************************************)
(* PreOrderCreateView.create, lines 139-218: permission, validation in the *)
(* order of the code, the stock read and check, the delivery date.         *)
(***************************************************************************)
\* int(request.data.get("quantity", 0)); ok = FALSE is ValueError/TypeError
QuantityOf(q) ==
    IF ~q.present THEN [ok |-> TRUE, val |-> 0]
    ELSE CASE q.kind = "int" -> [ok |-> TRUE, val |-> q.num]
           [] q.kind = "float" -> [ok |-> TRUE, val |-> IntOfTenths(q.num)]
           [] q.kind = "str" -> IntOfText(q.text)
           [] OTHER -> [ok |-> FALSE, val |-> 0]

\* the at sign let through with the comma, the period and the hyphen
AddressAllowedAt(c) == IsAlnum(c) \/ IsSpace(c) \/ c \in {",", ".", "-", "@"}

\* line 196
AddressAllowed(c) == IsAlnum(c) \/ IsSpace(c) \/ c \in {",", ".", "-"}

CutoffTime == HMS(18, 0, 0)

\* the cut-off compared with > in place of >=
DeliveryDateLate(now) ==
    IF now.time > CutoffTime THEN now.date + 1 + 1 ELSE now.date + 1

DeliveryDate(now) ==
    IF now.time >= CutoffTime THEN now.date + 1 + 1 ELSE now.date + 1

Rejected(r) ==
    [ok |-> FALSE, resp |-> r, user |-> "", product |-> 0, qty |-> 0,
     slot |-> 0, address |-> <<>>, delivery_date |-> 0]

\* the slot checked before the quantity
PlaceValidateSlotFirst(u, d, now) ==
    LET name == Strip(GetText(d.product_name))
        exact == {p \in Products : IExact(ProductName[p], name)}
        product == IF exact = {} THEN 0 ELSE Min(exact)
        suggestions == {p \in Products : IContains(ProductName[p], name)}
        q == QuantityOf(d.quantity)
        slot_input == Upper(Strip(GetText(d.slot)))
        slots == {s \in Slots : SLOT_CHOICES[s] = slot_input}
        address == Strip(GetText(d.delivery_address))
    IN  IF ~IsAuthenticated(u) THEN
            Rejected(Response(401, "Denied", "Authentication required"))
        ELSE IF ~IsCustomer(u) THEN
            Rejected(Response(403, "Denied", "permission denied"))
        ELSE IF name = <<>> THEN
            Rejected(Response(400, "InvalidInput", "Provide product_name"))
        ELSE IF product = 0 /\ suggestions = {} THEN
            Rejected(Response(404, "NotFound", "No products found"))
        ELSE IF product = 0 THEN
            Rejected([Response(300, "Ambiguous", "No exact match")
                        EXCEPT !.suggestions = suggestions])
        ELSE IF slots = {} THEN
            Rejected(Response(400, "InvalidInput", "Invalid slot."))
        ELSE IF q.ok /\ q.val <= 0 THEN
            Rejected(Response(400, "InvalidInput", "Quantity must be greater than zero."))
        ELSE IF ~q.ok THEN
            Rejected(Response(400, "InvalidInput", "Quantity must be a valid number."))
        ELSE IF address = <<>> THEN
            Rejected(Response(400, "InvalidInput", "Delivery address cannot be empty."))
        ELSE IF ~\E i \in DOMAIN address : IsAlpha(address[i]) THEN
            Rejected(Response(400, "InvalidInput",
                              "Delivery address must contain at least one letter."))
        ELSE IF ~\A i \in DOMAIN address : AddressAllowed(address[i]) THEN
            Rejected(Response(400, "InvalidInput",
                              "Delivery address can only contain letters, numbers, spaces, and ,.-"))
        ELSE
            [ok |-> TRUE, resp |-> NoResponse, user |-> u, product |-> product,
             qty |-> q.val, slot |-> Min(slots), address |-> address,
             delivery_date |-> DeliveryDate(now)]

\* the catalogue is searched before the name is checked for being empty
PlaceValidateLookupFirst(u, d, now) ==
    LET name == Strip(GetText(d.product_name))
        exact == {p \in Products : IExact(ProductName[p], name)}
        product == IF exact = {} THEN 0 ELSE Min(exact)
        suggestions == {p \in Products : IContains(ProductName[p], name)}
        q == QuantityOf(d.quantity)
        slot_input == Upper(Strip(GetText(d.slot)))
        slots == {s \in Slots : SLOT_CHOICES[s] = slot_input}
        address == Strip(GetText(d.delivery_address))
    IN  IF ~IsAuthenticated(u) THEN
            Rejected(Response(401, "Denied", "Authentication required"))
        ELSE IF ~IsCustomer(u) THEN
            Rejected(Response(403, "Denied", "permission denied"))
        ELSE IF product = 0 /\ suggestions = {} THEN
            Rejected(Response(404, "NotFound", "No products found"))
        ELSE IF product = 0 THEN
            Rejected([Response(300, "Ambiguous", "No exact match")
                        EXCEPT !.suggestions = suggestions])
        ELSE IF name = <<>> THEN
            Rejected(Response(400, "InvalidInput", "Provide product_name"))
        ELSE IF q.ok /\ q.val <= 0 THEN
            Rejected(Response(400, "InvalidInput", "Quantity must be greater than zero."))
        ELSE IF ~q.ok THEN
            Rejected(Response(400, "InvalidInput", "Quantity must be a valid number."))
        ELSE IF slots = {} THEN
            Rejected(Response(400, "InvalidInput", "Invalid slot."))
        ELSE IF address = <<>> THEN
            Rejected(Response(400, "InvalidInput", "Delivery address cannot be empty."))
        ELSE IF ~\E i \in DOMAIN address : IsAlpha(address[i]) THEN
            Rejected(Response(400, "InvalidInput",
                              "Delivery address must contain at least one letter."))
        ELSE IF ~\A i \in DOMAIN address : AddressAllowed(address[i]) THEN
            Rejected(Response(400, "InvalidInput",
                              "Delivery address can only contain letters, numbers, spaces, and ,.-"))
        ELSE
            [ok |-> TRUE, resp |-> NoResponse, user |-> u, product |-> product,
             qty |-> q.val, slot |-> Min(slots), address |-> address,
             delivery_date |-> DeliveryDate(now)]

\* the quantity compared with < 0 in place of <= 0
PlaceValidateZeroAllowed(u, d, now) ==
    LET name == Strip(GetText(d.product_name))
        exact == {p \in Products : IExact(ProductName[p], name)}
        product == IF exact = {} THEN 0 ELSE Min(exact)
        suggestions == {p \in Products : IContains(ProductName[p], name)}
        q == QuantityOf(d.quantity)
        slot_input == Upper(Strip(GetText(d.slot)))
        slots == {s \in Slots : SLOT_CHOICES[s] = slot_input}
        address == Strip(GetText(d.delivery_address))
    IN  IF ~IsAuthenticated(u) THEN
            Rejected(Response(401, "Denied", "Authentication required"))
        ELSE IF ~IsCustomer(u) THEN
            Rejected(Response(403, "Denied", "permission denied"))
        ELSE IF name = <<>> THEN
            Rejected(Response(400, "InvalidInput", "Provide product_name"))
        ELSE IF product = 0 /\ suggestions = {} THEN
            Rejected(Response(404, "NotFound", "No products found"))
        ELSE IF product = 0 THEN
            Rejected([Response(300, "Ambiguous", "No exact match")
                        EXCEPT !.suggestions = suggestions])
        ELSE IF q.ok /\ q.val < 0 THEN
            Rejected(Response(400, "InvalidInput", "Quantity must be greater than zero."))
        ELSE IF ~q.ok THEN
            Rejected(Response(400, "InvalidInput", "Quantity must be a valid number."))
        ELSE IF slots = {} THEN
            Rejected(Response(400, "InvalidInput", "Invalid slot."))
        ELSE IF address = <<>> THEN
            Rejected(Response(400, "InvalidInput", "Delivery address cannot be empty."))
        ELSE IF ~\E i \in DOMAIN address : IsAlpha(address[i]) THEN
            Rejected(Response(400, "InvalidInput",
                              "Delivery address must contain at least one letter."))
        ELSE IF ~\A i \in DOMAIN address : AddressAllowed(address[i]) THEN
            Rejected(Response(400, "InvalidInput",
                              "Delivery address can only contain letters, numbers, spaces, and ,.-"))
        ELSE
            [ok |-> TRUE, resp |-> NoResponse, user |-> u, product |-> product,
             qty |-> q.val, slot |-> Min(slots), address |-> address,
             delivery_date |-> DeliveryDate(now)]

\* lines 139-200 and 214-218: what the handler decides from the request, the
\* clock and the Product and DeliverySlot tables alone
PlaceValidate(u, d, now) ==
    LET name == Strip(GetText(d.product_name))
        exact == {p \in Products : IExact(ProductName[p], name)}
        product == IF exact = {} THEN 0 ELSE Min(exact)
        suggestions == {p \in Products : IContains(ProductName[p], name)}
        q == QuantityOf(d.quantity)
        slot_input == Upper(Strip(GetText(d.slot)))
        slots == {s \in Slots : SLOT_CHOICES[s] = slot_input}
        address == Strip(GetText(d.delivery_address))
    IN  IF ~IsAuthenticated(u) THEN
            Rejected(Response(401, "Denied", "Authentication required"))
        ELSE IF ~IsCustomer(u) THEN
            Rejected(Response(403, "Denied", "permission denied"))
        ELSE IF name = <<>> THEN
            Rejected(Response(400, "InvalidInput", "Provide product_name"))
        ELSE IF product = 0 /\ suggestions = {} THEN
            Rejected(Response(404, "NotFound", "No products found"))
        ELSE IF product = 0 THEN
            Rejected([Response(300, "Ambiguous", "No exact match")
                        EXCEPT !.suggestions = suggestions])
        ELSE IF q.ok /\ q.val <= 0 THEN
            Rejected(Response(400, "InvalidInput", "Quantity must be greater than zero."))
        ELSE IF ~q.ok THEN
            Rejected(Response(400, "InvalidInput", "Quantity must be a valid number."))
        ELSE IF slots = {} THEN
            Rejected(Response(400, "InvalidInput", "Invalid slot."))
        ELSE IF address = <<>> THEN
            Rejected(Response(400, "InvalidInput", "Delivery address cannot be empty."))
        ELSE IF ~\E i \in DOMAIN address : IsAlpha(address[i]) THEN
            Rejected(Response(400, "InvalidInput",
                              "Delivery address must contain at least one letter."))
        ELSE IF ~\A i \in DOMAIN address : AddressAllowed(address[i]) THEN
            Rejected(Response(400, "InvalidInput",
                              "Delivery address can only contain letters, numbers, spaces, and ,.-"))
        ELSE
            [ok |-> TRUE, resp |-> NoResponse, user |-> u, product |-> product,
             qty |-> q.val, slot |-> Min(slots), address |-> address,
             delivery_date |-> DeliveryDate(now)]

\* every request the callers send, as far as the handler tells them apart
\* before it reads the stock
PlaceGrid(callers, names, quantities, slots, addresses, times) ==
    { PlaceValidate(u, [product_name |-> n, quantity |-> q, slot |-> s,
                        delivery_address |-> a],
                    [date |-> Today, time |-> t]) :
        u \in callers, n \in names, q \in quantities,
        s \in slots, a \in addresses, t \in times }

PlaceRequests ==
    PlaceGrid({"alice", "bob", "olga", Anonymous},
              { Field(<<" ">>), Field(<<"a","p","p","l","e">>),
                Field(<<" ","B","a","n","a","n","a"," ">>),
                Field(<<"B","a","n">>), Field(<<"K","i","w","i">>) },
              { QInt(0), QInt(1), QInt(6) },
              { Field(<<"m","o","r","n","i","n","g">>), Field(<<"N","O","O","N">>) },
              { Field(<<"1","2","3">>),
                Field(<<" ","1","2"," ","M","a","i","n"," ","S","t",".",","," ","A","-","4"," ">>) },
              { HMS(17, 59, 59) })

\* the stock compared with <= in place of <
StockCheckStrict(v, stk) ==
    LET rows == RowsOf(stk, v.product)
        row == Min(rows)
    IN  IF rows = {} THEN
            [ok |-> FALSE, stock |-> NoRow,
             resp |-> Response(404, "NotFound", "Stock not found")]
        ELSE IF stk[row].quantity <= v.qty THEN
            [ok |-> FALSE, stock |-> NoRow,
             resp |-> [Response(400, "InsufficientStock", "Insufficient stock")
                         EXCEPT !.available = stk[row].quantity]]
        ELSE
            [ok |-> TRUE, resp |-> NoResponse,
             stock |-> [id |-> row, product |-> stk[row].product,
                        quantity |-> stk[row].quantity]]

\* a product without a row taken for a product with none in stock
StockCheckNoRowEmpty(v, stk) ==
    LET rows == RowsOf(stk, v.product)
        row == Min(rows)
    IN  IF rows = {} THEN
            [ok |-> FALSE, stock |-> NoRow,
             resp |-> [Response(400, "InsufficientStock", "Insufficient stock")
                         EXCEPT !.available = 0]]
        ELSE IF stk[row].quantity < v.qty THEN
            [ok |-> FALSE, stock |-> NoRow,
             resp |-> [Response(400, "InsufficientStock", "Insufficient stock")
                         EXCEPT !.available = stk[row].quantity]]
        ELSE
            [ok |-> TRUE, resp |-> NoResponse,
             stock |-> [id |-> row, product |-> stk[row].product,
                        quantity |-> stk[row].quantity]]

\* lines 202-212: the stock read and check
StockCheck(v, stk) ==
    LET rows == RowsOf(stk, v.product)
        row == Min(rows)
    IN  IF rows = {} THEN
            [ok |-> FALSE, stock |-> NoRow,
             resp |-> Response(404, "NotFound", "Stock not found")]
        ELSE IF stk[row].quantity < v.qty THEN
            [ok |-> FALSE, stock |-> NoRow,
             resp |-> [Response(400, "InsufficientStock", "Insufficient stock")
                         EXCEPT !.available = stk[row].quantity]]
        ELSE
            [ok |-> TRUE, resp |-> NoResponse,
             stock |-> [id |-> row, product |-> stk[row].product,
                        quantity |-> stk[row].quantity]]

\* History.  A request goes to work when it passes its first statement
\* without being answered; it is then counted for each product of P, the
\* products it works on.
Overlaps(w, P) == \E v \in Procs \ {w}, p \in P : Touches(v, p)

\* the number a request on product p gets, -1 when it starts while another
\* request is at work on p
SeqFor(w, p) == IF Overlaps(w, {p}) THEN -1 ELSE touched[p] + 1

\* an order of a product on which requests have overlapped loses its number
Tainted(w, P) ==
    [o \in DOMAIN audit |->
        IF Overlaps(w, P) /\ orders[o].product \in P
        THEN [audit[o] EXCEPT !.seq = -1] ELSE audit[o]]

\* no other request has been at work on the product of w's request since w
\* went to work
Alone(w) ==
    /\ loc[w].seq >= 0
    /\ loc[w].seq = touched[IF loc[w].op = "place" THEN loc[w].product
                            ELSE loc[w].preorder.product]

GoesToWork(w, kind, P) ==
    /\ touched' = [p \in Products |-> IF p \in P THEN touched[p] + 1 ELSE touched[p]]
    /\ seen' = [seen EXCEPT ![kind] = @ + 1]
    /\ audit' = Tainted(w, P)

\* the order is inserted before the stock is compared with the quantity
PlaceCheckInsertsFirst(w, v) ==
    LET c == StockCheck(v, stock)
        o == [user |-> v.user, product |-> v.product, slot |-> v.slot,
              quantity |-> v.qty, delivery_date |-> v.delivery_date,
              delivery_address |-> v.address, is_cancelled |-> FALSE]
    IN
    /\ Accepts(w)
    /\ started < MaxRequests
    /\ started' = started + 1
    /\ IF v.ok /\ c.ok
       THEN /\ pc' = [pc EXCEPT ![w] = "place_create"]
            /\ loc' = [loc EXCEPT ![w] =
                          [NoLocals EXCEPT !.op = "place", !.user = v.user,
                               !.product = v.product, !.qty = v.qty,
                               !.slot = v.slot, !.address = v.address,
                               !.delivery_date = v.delivery_date,
                               !.stock = c.stock,
                               !.seq = SeqFor(w, v.product)]]
            /\ UNCHANGED <<resp, orders>>
            /\ GoesToWork(w, "place", {v.product})
       ELSE /\ resp' = Sent(w, IF v.ok THEN c.resp ELSE v.resp)
            /\ IF v.ok /\ c.resp.kind = "InsufficientStock"
               THEN /\ orders' = Append(orders, o)
                    /\ audit' = Append(audit, [base |-> c.resp.available, seq |-> -1,
                                               confirmed |-> TRUE, restored |-> 0])
               ELSE UNCHANGED <<orders, audit>>
            /\ UNCHANGED <<pc, loc, touched, seen>>
    /\ UNCHANGED stock

PlaceCheck(w, v) ==
    LET c == StockCheck(v, stock) IN
    /\ Accepts(w)
    /\ started < MaxRequests
    /\ started' = started + 1
    /\ IF v.ok /\ c.ok
       THEN /\ pc' = [pc EXCEPT ![w] = "place_create"]
            /\ loc' = [loc EXCEPT ![w] =
                          [NoLocals EXCEPT !.op = "place", !.user = v.user,
                               !.product = v.product, !.qty = v.qty,
                               !.slot = v.slot, !.address = v.address,
                               !.delivery_date = v.delivery_date,
                               !.stock = c.stock,
                               !.seq = SeqFor(w, v.product)]]
            /\ UNCHANGED resp
            /\ GoesToWork(w, "place", {v.product})
       ELSE /\ resp' = Sent(w, IF v.ok THEN c.resp ELSE v.resp)
            /\ UNCHANGED <<pc, loc, audit, touched, seen>>
    /\ UNCHANGED <<stock, orders>>

(***************************************************************************)
(* Model.save() of a StockBalance instance: UPDATE of every field of the   *)
(* row with the instance's id.  The table's constraints (quantity is a     *)
(* PositiveIntegerField, product is a OneToOneField) make the statement    *)
(* fail with IntegrityError: ok = FALSE.                                   *)
(***************************************************************************)
SaveStock(stk, row) ==
    IF \/ ~PositiveInteger(row.quantity)
       \/ \E s \in StockIds \ {row.id} : stk[s].product = row.product
    THEN [ok |-> FALSE, stock |-> stk]
    ELSE [ok |-> TRUE,
          stock |-> [stk EXCEPT ![row.id] =
                        [product |-> row.product, quantity |-> row.quantity]]]

ServerError == Response(500, "ServerError", "unhandled exception")

\* lines 220-228: PreOrder.objects.create(...)
NewOrder(l) ==
    [user |-> l.user, product |-> l.product, slot |-> l.slot,
     quantity |-> l.qty, delivery_date |-> l.delivery_date,
     delivery_address |-> l.address, is_cancelled |-> FALSE]

PlaceCreate(w) ==
    /\ pc[w] = "place_create"
    /\ orders' = Append(orders, NewOrder(loc[w]))
    /\ audit' = Append(audit, [base |-> loc[w].stock.quantity,
                               seq |-> IF Alone(w) THEN loc[w].seq ELSE -1,
                               confirmed |-> FALSE, restored |-> 0])
    /\ loc' = [loc EXCEPT ![w].pk = Len(orders) + 1,
                          ![w].preorder = NewOrder(loc[w])]
    /\ pc' = [pc EXCEPT ![w] = "place_save"]
    /\ UNCHANGED <<stock, resp, started, touched, seen>>
    /\ UNCHANGED req

\* the stock is decremented by one unit whatever the quantity ordered
DeductedByOne(l) == [l.stock EXCEPT !.quantity = l.stock.quantity - 1]

\* lines 230-237: stock.quantity -= qty; stock.save(); 201
Deducted(l) == [l.stock EXCEPT !.quantity = l.stock.quantity - l.qty]

PlaceSave(w) ==
    LET saved == SaveStock(stock, Deducted(loc[w])) IN
    /\ pc[w] = "place_save"
    /\ stock' = saved.stock
    /\ resp' = Sent(w, IF saved.ok
                   THEN [Response(201, "Created", "") EXCEPT !.id = loc[w].pk]
                   ELSE ServerError)
    /\ audit' = [audit EXCEPT ![loc[w].pk].confirmed = saved.ok]
    /\ pc' = [pc EXCEPT ![w] = "idle"]
    /\ loc' = [loc EXCEPT ![w] = NoLocals]
    /\ UNCHANGED <<orders, started, touched, seen>>
    /\ UNCHANGED req

(***************************************************************************)
(* CancelOrderView.post                                                    *)
(***************************************************************************)
\* the order looked up by its id alone: PreOrder.objects.get(pk=pk)
CancelOutcomeAnyOwner(u, pk, ords) ==
    IF ~IsAuthenticated(u) THEN
        Response(401, "Denied", "Authentication required")
    ELSE IF ~IsCustomer(u) THEN
        Response(403, "Denied", "permission denied")
    ELSE IF pk \notin DOMAIN ords THEN
        Response(404, "NotFound", "Order not found or not authorized")
    ELSE IF ords[pk].is_cancelled THEN
        Response(400, "AlreadyCancelled", "Order already cancelled")
    ELSE NoResponse

\* the view without its is_cancelled check
CancelOutcomeUnchecked(u, pk, ords) ==
    IF ~IsAuthenticated(u) THEN
        Response(401, "Denied", "Authentication required")
    ELSE IF ~IsCustomer(u) THEN
        Response(403, "Denied", "permission denied")
    ELSE IF ~(pk \in DOMAIN ords /\ ords[pk].user = u) THEN
        Response(404, "NotFound", "Order not found or not authorized")
    ELSE NoResponse

\* lines 252-265: permission, PreOrder.objects.get(pk=pk, user=request.user),
\* the is_cancelled check on the instance read
CancelOutcome(u, pk, ords) ==
    IF ~IsAuthenticated(u) THEN
        Response(401, "Denied", "Authentication required")
    ELSE IF ~IsCustomer(u) THEN
        Response(403, "Denied", "permission denied")
    ELSE IF ~(pk \in DOMAIN ords /\ ords[pk].user = u) THEN
        Response(404, "NotFound", "Order not found or not authorized")
    ELSE IF ords[pk].is_cancelled THEN
        Response(400, "AlreadyCancelled", "Order already cancelled")
    ELSE NoResponse

CancelGet(w, u, pk) ==
    LET r == CancelOutcome(u, pk, orders) IN
    /\ Accepts(w)
    /\ started < MaxRequests
    /\ started' = started + 1
    /\ IF r = NoResponse
       THEN /\ pc' = [pc EXCEPT ![w] = "cancel_flag"]
            /\ loc' = [loc EXCEPT ![w] =
                          [NoLocals EXCEPT !.op = "cancel", !.user = u,
                               !.pk = pk, !.preorder = orders[pk],
                               !.seq = SeqFor(w, orders[pk].product)]]
            /\ UNCHANGED resp
            /\ GoesToWork(w, "cancel", {orders[pk].product})
       ELSE /\ resp' = Sent(w, r)
            /\ UNCHANGED <<pc, loc, audit, touched, seen>>
    /\ UNCHANGED <<stock, orders>>

\* the flag of the row inverted where the view sets it
CancelFlagInverts(w) ==
    /\ pc[w] = "cancel_flag"
    /\ orders' = [orders EXCEPT ![loc[w].pk].is_cancelled = ~orders[loc[w].pk].is_cancelled]
    /\ loc' = [loc EXCEPT ![w].preorder.is_cancelled = TRUE]
    /\ pc' = [pc EXCEPT ![w] = "cancel_stock"]
    /\ UNCHANGED <<stock, resp, started, audit, touched, seen>>
    /\ UNCHANGED req

\* lines 267-268: preorder.is_cancelled = True; preorder.save()
CancelFlag(w) ==
    /\ pc[w] = "cancel_flag"
    /\ orders' = [orders EXCEPT ![loc[w].pk] =
                     [loc[w].preorder EXCEPT !.is_cancelled = TRUE]]
    /\ loc' = [loc EXCEPT ![w].preorder.is_cancelled = TRUE]
    /\ pc' = [pc EXCEPT ![w] = "cancel_stock"]
    /\ UNCHANGED <<stock, resp, started, audit, touched, seen>>
    /\ UNCHANGED req

\* line 270: stock = StockBalance.objects.get(product=preorder.product);
\* DoesNotExist is not caught
CancelStockGet(w) ==
    LET rows == RowsOf(stock, loc[w].preorder.product) IN
    /\ pc[w] = "cancel_stock"
    /\ IF rows = {}
       THEN /\ resp' = Sent(w, ServerError)
            /\ pc' = [pc EXCEPT ![w] = "idle"]
            /\ loc' = [loc EXCEPT ![w] = NoLocals]
       ELSE /\ loc' = [loc EXCEPT ![w].stock =
                          [id |-> Min(rows),
                           product |-> stock[Min(rows)].product,
                           quantity |-> stock[Min(rows)].quantity]]
            /\ pc' = [pc EXCEPT ![w] = "cancel_save"]
            /\ UNCHANGED resp
    /\ UNCHANGED <<stock, orders, started, audit, touched, seen>>
    /\ UNCHANGED req

\* the stock is incremented by one unit whatever the order's quantity
RestoredByOne(l) == [l.stock EXCEPT !.quantity = l.stock.quantity + 1]

\* lines 271-274: stock.quantity += preorder.quantity; stock.save(); 200
Restored(l) == [l.stock EXCEPT !.quantity = l.stock.quantity + l.preorder.quantity]

CancelSave(w) ==
    LET saved == SaveStock(stock, Restored(loc[w])) IN
    /\ pc[w] = "cancel_save"
    /\ stock' = saved.stock
    /\ resp' = Sent(w, IF saved.ok
                   THEN [Response(200, "Ok", "Order cancelled") EXCEPT !.id = loc[w].pk]
                   ELSE ServerError)
    /\ audit' = [audit EXCEPT ![loc[w].pk].restored =
                    IF saved.ok THEN @ + 1 ELSE @]
    /\ pc' = [pc EXCEPT ![w] = "idle"]
    /\ loc' = [loc EXCEPT ![w] = NoLocals]
    /\ UNCHANGED <<orders, started, touched, seen>>
    /\ UNCHANGED req

(***************************************************************************)
(* StockUpdateView (UpdateAPIView with StockBalanceSerializer): PUT and    *)
(* PATCH of /stock/<pk>/.                                                  *)
(***************************************************************************)
\* serializers.IntegerField.to_internal_value
SerializerInt(q) ==
    CASE q.kind = "int" -> [ok |-> TRUE, val |-> q.num]
      [] q.kind = "float" ->
            IF q.num % 10 = 0 THEN [ok |-> TRUE, val |-> IntOfTenths(q.num)]
            ELSE [ok |-> FALSE, val |-> 0]
      [] q.kind = "str" -> IntOfText(q.text)
      [] OTHER -> [ok |-> FALSE, val |-> 0]

AdjustQuantityInputs ==
    { QAbsent, QNull, QInt(-1), QInt(0), QInt(20), QText(<<"2","0">>), QTenths(5) }

AdjustProductInputs ==
    { [present |-> FALSE, id |-> 0], [present |-> TRUE, id |-> 2],
      [present |-> TRUE, id |-> 3], [present |-> TRUE, id |-> 9] }

\* the permission and the serializer's checks of the body that read no
\* StockBalance row: product_id is required unless the update is partial and
\* must be a Product; quantity (a field with a default) is optional and must
\* be an integer >= 0
AdjustValidate(u, partial, d) ==
    LET q == SerializerInt(d.quantity)
        bad == \/ ~partial /\ ~d.product_id.present
               \/ d.product_id.present /\ d.product_id.id \notin Products
               \/ d.quantity.present /\ (~q.ok \/ ~PositiveInteger(q.val))
    IN  [denied |-> ~IsOpsManager(u),
         status |-> IF IsAuthenticated(u) THEN 403 ELSE 401,
         invalid |-> bad,
         has_product |-> d.product_id.present /\ ~bad,
         product |-> IF d.product_id.present /\ ~bad THEN d.product_id.id ELSE 0,
         has_quantity |-> d.quantity.present /\ ~bad,
         quantity |-> IF d.quantity.present /\ ~bad THEN q.val ELSE 0]

AdjustRequests ==
    { AdjustValidate(u, partial, [product_id |-> p, quantity |-> q]) :
        u \in Callers, partial \in BOOLEAN,
        p \in AdjustProductInputs, q \in AdjustQuantityInputs }

\* the primary keys a caller puts in the URL
StockKeys == StockIds \cup {3}

\* UpdateAPIView.update: check_permissions, then get_object()
AdjustGet(w, pk, v) ==
    /\ Accepts(w)
    /\ started < MaxRequests
    /\ started' = started + 1
    /\ IF v.denied THEN
            /\ resp' = Sent(w, Response(v.status, "Denied", "permission denied"))
            /\ UNCHANGED <<pc, loc, audit, touched, seen>>
       ELSE IF pk \notin StockIds THEN
            /\ resp' = Sent(w, Response(404, "NotFound", "Not found."))
            /\ UNCHANGED <<pc, loc, audit, touched, seen>>
       ELSE
            /\ pc' = [pc EXCEPT ![w] = "adjust_validate"]
            /\ loc' = [loc EXCEPT ![w] =
                          [NoLocals EXCEPT !.op = "adjust", !.pk = pk,
                               !.product = v.product, !.data = v,
                               !.stock = [id |-> pk,
                                          product |-> stock[pk].product,
                                          quantity |-> stock[pk].quantity]]]
            /\ UNCHANGED resp
            /\ GoesToWork(w, "adjust", {stock[pk].product} \cup ({v.product} \cap Products))
    /\ UNCHANGED <<stock, orders>>

\* the windows without their last second
InWindowOpen(t) ==
    \/ HMS(8, 0, 0) <= t /\ t < HMS(12, 0, 0)
    \/ HMS(18, 0, 0) <= t /\ t < HMS(19, 0, 0)

\* lines 112-118
InWindow(t) ==
    \/ HMS(8, 0, 0) <= t /\ t <= HMS(12, 0, 0)
    \/ HMS(18, 0, 0) <= t /\ t <= HMS(19, 0, 0)

AdjustTimes ==
    { HMS(8, 0, 0), HMS(12, 0, 1), HMS(17, 59, 59), HMS(19, 0, 0) }

\* the instance with the validated data set on it (serializer.update)
Updated(l) ==
    [id |-> l.stock.id,
     product |-> IF l.data.has_product THEN l.data.product ELSE l.stock.product,
     quantity |-> IF l.data.has_quantity THEN l.data.quantity ELSE l.stock.quantity]

\* serializer.is_valid(): the body's errors and the UniqueValidator of
\* product_id (a query that leaves the instance out); then perform_update's
\* clock check, lines 112-118
AdjustCheck(w, t) ==
    LET l == loc[w]
        taken == /\ l.data.has_product
                 /\ \E s \in StockIds \ {l.stock.id} : stock[s].product = l.data.product
    IN
    /\ pc[w] = "adjust_validate"
    /\ IF l.data.invalid \/ taken THEN
            /\ resp' = Sent(w, Response(400, "InvalidInput", "invalid body"))
            /\ pc' = [pc EXCEPT ![w] = "idle"]
            /\ loc' = [loc EXCEPT ![w] = NoLocals]
       ELSE IF ~InWindow(t) THEN
            /\ resp' = Sent(w, Response(400, "OutOfWindow",
                                    "Stock can only be updated during allowed slots"))
            /\ pc' = [pc EXCEPT ![w] = "idle"]
            /\ loc' = [loc EXCEPT ![w] = NoLocals]
       ELSE
            /\ loc' = [loc EXCEPT ![w].stock = Updated(l)]
            /\ pc' = [pc EXCEPT ![w] = "adjust_save"]
            /\ UNCHANGED resp
    /\ UNCHANGED <<stock, orders, started, audit, touched, seen>>
    /\ UNCHANGED req

\* line 119: serializer.save() -> instance.save(); 200
AdjustSave(w) ==
    LET saved == SaveStock(stock, loc[w].stock) IN
    /\ pc[w] = "adjust_save"
    /\ stock' = saved.stock
    /\ resp' = Sent(w, IF saved.ok
                   THEN [Response(200, "Ok", "") EXCEPT !.id = loc[w].pk,
                                                        !.available = loc[w].stock.quantity]
                   ELSE ServerError)
    /\ pc' = [pc EXCEPT ![w] = "idle"]
    /\ loc' = [loc EXCEPT ![w] = NoLocals]
    /\ UNCHANGED <<orders, started, audit, touched, seen>>
    /\ UNCHANGED req

(***************************************************************************)
(* OrderListBySlotView.list: GET /orders/?slot=...                         *)
(***************************************************************************)
\* the filter without is_cancelled=False
ListOutcomeAll(u, slot, ords) ==
    LET slot_input == Upper(Strip(GetText(slot)))
        slots == {s \in Slots : SLOT_CHOICES[s] = slot_input}
    IN  IF ~IsAuthenticated(u) THEN
            Response(401, "Denied", "Authentication required")
        ELSE IF ~IsOpsManager(u) THEN
            Response(403, "Denied", "permission denied")
        ELSE IF GetText(slot) = <<>> THEN
            Response(400, "InvalidInput", "Slot parameter is required.")
        ELSE IF slots = {} THEN
            Response(400, "InvalidInput", "Invalid slot.")
        ELSE
            [Response(200, "Ok", "") EXCEPT
                !.listed = {o \in DOMAIN ords : ords[o].slot = Min(slots)}]

\* lines 294-326: permission, the slot parameter, the filter
ListOutcome(u, slot, ords) ==
    LET slot_input == Upper(Strip(GetText(slot)))
        slots == {s \in Slots : SLOT_CHOICES[s] = slot_input}
    IN  IF ~IsAuthenticated(u) THEN
            Response(401, "Denied", "Authentication required")
        ELSE IF ~IsOpsManager(u) THEN
            Response(403, "Denied", "permission denied")
        ELSE IF GetText(slot) = <<>> THEN
            Response(400, "InvalidInput", "Slot parameter is required.")
        ELSE IF slots = {} THEN
            Response(400, "InvalidInput", "Invalid slot.")
        ELSE
            [Response(200, "Ok", "") EXCEPT
                !.listed = {o \in DOMAIN ords :
                               ords[o].slot = Min(slots) /\ ~ords[o].is_cancelled}]

OrderListBySlot(w, u, slot) ==
    /\ Accepts(w)
    /\ started < MaxRequests
    /\ started' = started + 1
    /\ resp' = Sent(w, ListOutcome(u, slot, orders))
    /\ UNCHANGED <<stock, orders, pc, loc, audit, touched, seen>>

(***************************************************************************)
(* TopProductsReportView.get: GET /report/top-products/?start=...&end=...  *)
(***************************************************************************)
\* the text before the first "-" of s, and the text after it
RECURSIVE BeforeDash(_)
BeforeDash(s) ==
    IF s = <<>> \/ Head(s) = "-" THEN <<>> ELSE <<Head(s)>> \o BeforeDash(Tail(s))

RECURSIVE AfterDash(_)
AfterDash(s) ==
    IF s = <<>> THEN <<>> ELSE IF Head(s) = "-" THEN Tail(s) ELSE AfterDash(Tail(s))

AllDigits(s) == s # <<>> /\ \A i \in DOMAIN s : IsDigit(s[i])

LeapYear(y) == y % 4 = 0 /\ (y % 100 # 0 \/ y % 400 = 0)

DaysInMonth(y, m) ==
    IF m \in {4, 6, 9, 11} THEN 30
    ELSE IF m = 2 THEN (IF LeapYear(y) THEN 29 ELSE 28)
    ELSE 31

\* a date as a day number: 2025-01-10 is day Today, the days of January 2025
\* follow it one by one, and later months come later (31 numbers a month)
DayNumber(y, m, d) == ((y - 2025) * 12 + (m - 1)) * 31 + (d - 10) + Today

\* datetime.strptime(text, "%Y-%m-%d").date(); ok = FALSE is TypeError (no
\* parameter) or ValueError
ParseDate(f) ==
    LET t == GetText(f)
        y == BeforeDash(t)
        rest == AfterDash(t)
        m == BeforeDash(rest)
        d == AfterDash(rest)
        shaped == /\ f.present
                  /\ Len(t) = Len(y) + Len(m) + Len(d) + 2
                  /\ AllDigits(y) /\ Len(y) = 4
                  /\ AllDigits(m) /\ Len(m) \in {1, 2}
                  /\ AllDigits(d) /\ Len(d) \in {1, 2}
    IN  IF /\ shaped
           /\ DigitsValue(y) >= 1
           /\ DigitsValue(m) \in 1..12
           /\ DigitsValue(d) \in 1..DaysInMonth(DigitsValue(y), DigitsValue(m))
        THEN [ok |-> TRUE,
              val |-> DayNumber(DigitsValue(y), DigitsValue(m), DigitsValue(d))]
        ELSE [ok |-> FALSE, val |-> 0]

\* .values("id", "user__username", "product__name", "quantity",
\* "delivery_date") of one order
ReportRow(o, ords) ==
    [id |-> o, user |-> ords[o].user, product |-> ords[o].product,
     quantity |-> ords[o].quantity, delivery_date |-> ords[o].delivery_date]

\* the orderings of the rows of S that .order_by("-quantity") allows: rows of
\* one quantity come in any order
OrderedByQuantity(S, ords) ==
    { sq \in [1..Cardinality(S) -> S] :
        /\ \A i, j \in DOMAIN sq : i # j => sq[i] # sq[j]
        /\ \A i, j \in DOMAIN sq : i < j => ords[sq[i]].quantity >= ords[sq[j]].quantity }

\* lines 354-387.  qs is assigned only inside "if start_date > end_date":
\* with start_date <= end_date the return statement reads an unbound local
\* (UnboundLocalError, answered 500)
\* s and e are the start and end parameters as ParseDate returns them
TopProductsReport(w, u, s, e) ==
    LET S == {o \in DOMAIN orders :
                 /\ e.val <= orders[o].delivery_date
                 /\ orders[o].delivery_date <= s.val
                 /\ ~orders[o].is_cancelled}
    IN
    /\ Accepts(w)
    /\ started < MaxRequests
    /\ started' = started + 1
    /\ IF ~IsAuthenticated(u) THEN
            resp' = Sent(w, Response(401, "Denied", "Authentication required"))
       ELSE IF ~IsOpsManager(u) THEN
            resp' = Sent(w, Response(403, "Denied", "permission denied"))
       ELSE IF ~s.ok \/ ~e.ok THEN
            resp' = Sent(w, Response(400, "InvalidInput",
                                     "Invalid date format. Use YYYY-MM-DD"))
       ELSE IF s.val > e.val THEN
            \E sq \in OrderedByQuantity(S, orders) :
                resp' = Sent(w, [Response(200, "Ok", "") EXCEPT
                                    !.report = [i \in DOMAIN sq |-> ReportRow(sq[i], orders)]])
       ELSE resp' = Sent(w, ServerError)
    /\ UNCHANGED <<stock, orders, pc, loc, audit, touched, seen>>

(***************************************************************************)
(* The system.                                                             *)
(***************************************************************************)
\* the order ids a caller puts in the URL
OrderKeys == 1..MaxRequests

Init ==
    /\ stock = InitStock
    /\ orders = <<>>
    /\ pc = [w \in Procs |-> "idle"]
    /\ loc = [w \in Procs |-> NoLocals]
    /\ resp = NoResponse
    /\ started = 0
    /\ audit = <<>>
    /\ touched = [p \in Products |-> 0]
    /\ seen = [k \in {"place", "cancel", "adjust"} |-> 0]
    /\ req = NoRequest

Next ==
    \E w \in Procs :
        \/ \E v \in PlaceRequests : PlaceCheck(w, v) /\ UNCHANGED req
        \/ PlaceCreate(w)
        \/ PlaceSave(w)
        \/ \E u \in Callers, pk \in OrderKeys : CancelGet(w, u, pk) /\ UNCHANGED req
        \/ CancelFlag(w)
        \/ CancelStockGet(w)
        \/ CancelSave(w)
        \/ \E pk \in StockKeys, v \in AdjustRequests : AdjustGet(w, pk, v) /\ UNCHANGED req
        \/ \E t \in AdjustTimes : AdjustCheck(w, t)
        \/ AdjustSave(w)

Spec == Init /\ [][Next]_vars

(***************************************************************************)
(* Scheduling.  A handler that has begun runs in a worker of its own: none *)
(* of its statements waits for a lock or for another request, so a worker  *)
(* that can take its next statement does take it in the end.  Nothing      *)
(* obliges a new request to arrive.                                        *)
(***************************************************************************)
\* the next statement of the handler worker w is running
Continue(w) ==
    \/ PlaceCreate(w)
    \/ PlaceSave(w)
    \/ CancelFlag(w)
    \/ CancelStockGet(w)
    \/ CancelSave(w)
    \/ \E t \in AdjustTimes : AdjustCheck(w, t)
    \/ AdjustSave(w)

FairSpec == Init /\ [][Next]_vars /\ \A w \in Procs : WF_vars(Continue(w))

(***************************************************************************)
(* One request, followed from its arrival to its response: the request,    *)
(* the clock and the stock table are drawn from the sets below, and the    *)
(* handler's statements run without any other request.                     *)
(***************************************************************************)
\* the clock of a placement: around the cut-off, on two dates
PlaceClocks ==
    { [date |-> dt, time |-> t] : dt \in {Today, Today + 3}, t \in PlaceTimes }

\* the clock of a stock update: the edges of the two windows
WindowTimes ==
    { HMS(7, 59, 59), HMS(8, 0, 0), HMS(12, 0, 0), HMS(12, 0, 1),
      HMS(17, 59, 59), HMS(18, 0, 0), HMS(19, 0, 0), HMS(19, 0, 1) }

\* StockBalance tables: Apple with several quantities; Banana with 5, or
\* with no row of its own (the second row is Bandaid's)
StockInputs ==
    { [s \in StockIds |->
          IF s = 1 THEN [product |-> 1, quantity |-> a]
                   ELSE [product |-> b, quantity |-> 5]] :
        a \in {0, 1, 6, 10}, b \in {2, 4} }

PlaceBodies ==
    { [product_name |-> n, quantity |-> q, slot |-> sl, delivery_address |-> ad] :
        n \in NameInputs, q \in QuantityInputs,
        sl \in SlotInputs, ad \in AddressInputs }

AdjustBodies ==
    { [product_id |-> p, quantity |-> q] :
        p \in AdjustProductInputs, q \in AdjustQuantityInputs }

OneRequests ==
    { [op |-> "place", user |-> u, now |-> c, pk |-> 0, partial |-> FALSE, data |-> d] :
        u \in {"alice", "olga", Anonymous}, c \in PlaceClocks, d \in PlaceBodies }
    \cup
    { [op |-> "adjust", user |-> u, now |-> [date |-> Today, time |-> t],
       pk |-> k, partial |-> pt, data |-> d] :
        u \in {"olga", "alice", Anonymous}, t \in WindowTimes, k \in StockKeys,
        pt \in BOOLEAN, d \in AdjustBodies }

OneInit ==
    /\ stock \in StockInputs
    /\ orders = <<>>
    /\ pc = [w \in Procs |-> "idle"]
    /\ loc = [w \in Procs |-> NoLocals]
    /\ resp = NoResponse
    /\ started = 0
    /\ audit = <<>>
    /\ touched = [p \in Products |-> 0]
    /\ seen = [k \in {"place", "cancel", "adjust"} |-> 0]
    /\ req \in OneRequests

ServePlace ==
    /\ req.op = "place"
    /\ started = 0
    /\ PlaceCheck("w1", PlaceValidate(req.user, req.data, req.now))
    /\ UNCHANGED req

ServeAdjust ==
    /\ req.op = "adjust"
    /\ started = 0
    /\ AdjustGet("w1", req.pk, AdjustValidate(req.user, req.partial, req.data))
    /\ UNCHANGED req

ServeAdjustCheck == AdjustCheck("w1", req.now.time)

OneNext ==
    \/ ServePlace
    \/ PlaceCreate("w1")
    \/ PlaceSave("w1")
    \/ ServeAdjust
    \/ ServeAdjustCheck
    \/ AdjustSave("w1")

OneRequestSpec == OneInit /\ [][OneNext]_vars

(***************************************************************************)
(* Requests served one after the other by one worker: placements,          *)
(* cancellations, listings and reports; req is the last request begun.     *)
(***************************************************************************)
SeqClocks ==
    { [date |-> Today, time |-> t] : t \in {HMS(17, 59, 59), HMS(18, 0, 0)} }

SeqPlaceRequests ==
    { [op |-> "place", user |-> u, now |-> c, pk |-> 0, partial |-> FALSE,
       data |-> [product_name |-> n, quantity |-> q, slot |-> sl,
                 delivery_address |-> Field(<<"1"," ","M","a","i","n"," ","S","t">>)]] :
        u \in {"alice", "bob"}, c \in SeqClocks,
        n \in {Field(<<"a","p","p","l","e">>), Field(<<" ","B","a","n","a","n","a"," ">>)},
        q \in {QInt(1), QInt(6)},
        sl \in {Field(<<"m","o","r","n","i","n","g">>),
                Field(<<" ","E","V","E","N","I","N","G"," ">>)} }

CancelRequest(u, pk) ==
    [NoRequest EXCEPT !.op = "cancel", !.user = u, !.pk = pk]

ListRequest(u, slot) ==
    [NoRequest EXCEPT !.op = "list", !.user = u, !.data = [slot |-> slot]]

ReportRequest(u, start, end) ==
    [NoRequest EXCEPT !.op = "report", !.user = u,
                      !.data = [start |-> start, end |-> end]]

\* the start and end parameters of a report; 2025-01-11 and 2025-01-12 are
\* the delivery dates of the orders placed on day Today
DateInputs ==
    { Absent,
      Field(<<"2","0","2","5","-","0","1","-","1","1">>),
      Field(<<"2","0","2","5","-","0","1","-","1","2">>),
      Field(<<"2","0","2","5","-","1","-","1","3">>),
      Field(<<"2","0","2","5","-","0","2","-","3","0">>),
      Field(<<"1","1","/","0","1","/","2","0","2","5">>) }

\* each request with what the handler decides from it before it reads the
\* stock
SeqPlaceServed ==
    { [req |-> r, v |-> PlaceValidate(r.user, r.data, r.now)] : r \in SeqPlaceRequests }

SeqPlace ==
    \E r \in SeqPlaceServed :
        /\ req' = r.req
        /\ PlaceCheck("w1", r.v)

SeqCancel ==
    \E u \in {"alice", "bob", "olga"}, pk \in OrderKeys :
        /\ req' = CancelRequest(u, pk)
        /\ CancelGet("w1", u, pk)

SeqList ==
    \E u \in {"olga", "alice", Anonymous}, slot \in SlotInputs :
        /\ req' = ListRequest(u, slot)
        /\ OrderListBySlot("w1", u, slot)

\* each report request with its parameters parsed
SeqReportServed ==
    { [req |-> ReportRequest(u, start, end), s |-> ParseDate(start), e |-> ParseDate(end)] :
        u \in {"olga", "alice", Anonymous}, start \in DateInputs, end \in DateInputs }

SeqReport ==
    \E r \in SeqReportServed :
        /\ req' = r.req
        /\ TopProductsReport("w1", r.req.user, r.s, r.e)

SeqNext ==
    \/ SeqPlace
    \/ PlaceCreate("w1")
    \/ PlaceSave("w1")
    \/ SeqCancel
    \/ CancelFlag("w1")
    \/ CancelStockGet("w1")
    \/ CancelSave("w1")
    \/ SeqList
    \/ SeqReport

SeqSpec == Init /\ [][SeqNext]_vars

(***************************************************************************)
(* One stock update by the ops manager, inside the morning window, while   *)
(* alice's placements and cancellations are served one after the other:    *)
(* the update overlaps them in every way; req is the update's request.     *)
(***************************************************************************)
RaceClock == HMS(8, 0, 0)

RacePlaceServed ==
    PlaceGrid({"alice"},
              { Field(<<"a","p","p","l","e">>), Field(<<" ","B","a","n","a","n","a"," ">>) },
              { QInt(1), QInt(6) },
              { Field(<<"m","o","r","n","i","n","g">>) },
              { Field(<<"1"," ","M","a","i","n"," ","S","t">>) },
              { HMS(17, 59, 59) })

RaceAdjustRequests ==
    { [op |-> "adjust", user |-> "olga", now |-> [date |-> Today, time |-> RaceClock],
       pk |-> k, partial |-> pt, data |-> [product_id |-> p, quantity |-> q]] :
        k \in StockIds, pt \in BOOLEAN,
        p \in { [present |-> FALSE, id |-> 0], [present |-> TRUE, id |-> 2],
                [present |-> TRUE, id |-> 3] },
        q \in { QAbsent, QInt(0), QInt(20) } }

\* each update request with what the serializer decides from its body
RaceAdjustServed ==
    { [req |-> r, v |-> AdjustValidate(r.user, r.partial, r.data)] : r \in RaceAdjustRequests }

\* no placement or cancellation is being served by another worker
OrdersInTurn(w) == \A x \in Procs \ {w} : loc[x].op \notin {"place", "cancel"}

RacePlace(w) ==
    \E v \in RacePlaceServed :
        /\ OrdersInTurn(w)
        /\ PlaceCheck(w, v)
        /\ UNCHANGED req

RaceCancel(w) ==
    \E pk \in OrderKeys :
        /\ OrdersInTurn(w)
        /\ CancelGet(w, "alice", pk)
        /\ UNCHANGED req

RaceAdjust(w) ==
    \E r \in RaceAdjustServed :
        /\ req.op = "none"
        /\ req' = r.req
        /\ AdjustGet(w, r.req.pk, r.v)

RaceNext ==
    \E w \in Procs :
        \/ RacePlace(w)
        \/ PlaceCreate(w)
        \/ PlaceSave(w)
        \/ RaceCancel(w)
        \/ CancelFlag(w)
        \/ CancelStockGet(w)
        \/ CancelSave(w)
        \/ RaceAdjust(w)
        \/ AdjustCheck(w, RaceClock)
        \/ AdjustSave(w)

AdjustRaceSpec == Init /\ [][RaceNext]_vars

(***************************************************************************)
(* Requests of every kind of caller (customer, ops manager, admin, not     *)
(* logged in) served one after the other by one worker: placements,        *)
(* cancellations and stock updates; req is the request being served.       *)
(***************************************************************************)
GateCallers == {"alice", "olga", "adam", Anonymous}

GatePlaceRequests ==
    { [op |-> "place", user |-> u, now |-> [date |-> Today, time |-> HMS(17, 59, 59)],
       pk |-> 0, partial |-> FALSE,
       data |-> [product_name |-> n, quantity |-> QInt(1),
                 slot |-> Field(<<"m","o","r","n","i","n","g">>),
                 delivery_address |-> Field(<<"1"," ","M","a","i","n"," ","S","t">>)]] :
        u \in GateCallers,
        n \in {Field(<<"a","p","p","l","e">>), Field(<<"K","i","w","i">>)} }

GatePlaceServed ==
    { [req |-> r, v |-> PlaceValidate(r.user, r.data, r.now)] : r \in GatePlaceRequests }

GateAdjustRequests ==
    { [op |-> "adjust", user |-> u, now |-> [date |-> Today, time |-> 0],
       pk |-> k, partial |-> pt, data |-> [product_id |-> p, quantity |-> q]] :
        u \in GateCallers, k \in StockKeys, pt \in BOOLEAN,
        p \in { [present |-> FALSE, id |-> 0], [present |-> TRUE, id |-> 3] },
        q \in { QInt(-1), QInt(20) } }

GateAdjustServed ==
    { [req |-> r, v |-> AdjustValidate(r.user, r.partial, r.data)] : r \in GateAdjustRequests }

GatePlace ==
    \E r \in GatePlaceServed :
        /\ req' = r.req
        /\ PlaceCheck("w1", r.v)

GateCancel ==
    \E u \in GateCallers \cup {"bob"}, pk \in OrderKeys :
        /\ req' = CancelRequest(u, pk)
        /\ CancelGet("w1", u, pk)

GateAdjust ==
    \E r \in GateAdjustServed :
        /\ req' = r.req
        /\ AdjustGet("w1", r.req.pk, r.v)

GateNext ==
    \/ GatePlace
    \/ PlaceCreate("w1")
    \/ PlaceSave("w1")
    \/ GateCancel
    \/ CancelFlag("w1")
    \/ CancelStockGet("w1")
    \/ CancelSave("w1")
    \/ GateAdjust
    \/ \E t \in AdjustTimes : AdjustCheck("w1", t)
    \/ AdjustSave("w1")

GateSpec == Init /\ [][GateNext]_vars

(***************************************************************************)
(* Properties.                                                             *)
(***************************************************************************)
AllIdle == \A w \in Procs : pc[w] = "idle"

HasRow(stk, p) == RowsOf(stk, p) # {}

\* the quantity of product p's StockBalance row
QuantityOfProduct(stk, p) == stk[Min(RowsOf(stk, p))].quantity

RECURSIVE SumQuantity(_)
SumQuantity(S) ==
    IF S = {} THEN 0
    ELSE LET o == Min(S) IN orders[o].quantity + SumQuantity(S \ {o})

OrdersOf(p) == {o \in DOMAIN orders : orders[o].product = p}

\* C1: no oversell under concurrency.  While only placements have been at
\* work, the quantities of the placements of a product that were answered
\* 201 sum to at most the product's initial stock.
C1_NoOversell ==
    (seen["cancel"] = 0 /\ seen["adjust"] = 0) =>
        \A p \in Products :
            HasRow(InitStock, p) =>
                SumQuantity({o \in OrdersOf(p) : audit[o].confirmed})
                    <= QuantityOfProduct(InitStock, p)

\* C2: the quantity of every StockBalance row is >= 0 in every reachable
\* state.
C2_QuantityNonNegative == \A s \in StockIds : stock[s].quantity >= 0

C2_Witness ==
    /\ AllIdle
    /\ seen["place"] > 0 /\ seen["cancel"] > 0 /\ seen["adjust"] > 0
    /\ \E s \in StockIds : stock[s].quantity = 0

\* C3: per-product linearizability.  Once every request has completed, and
\* no stock update was made, a product's quantity is its initial quantity
\* minus the quantities of its orders that are not cancelled.
C3_Linearizable ==
    (AllIdle /\ seen["adjust"] = 0) =>
        \A p \in Products :
            HasRow(InitStock, p) =>
                QuantityOfProduct(stock, p) =
                    QuantityOfProduct(InitStock, p)
                        - SumQuantity({o \in OrdersOf(p) : ~orders[o].is_cancelled})

\* C4: cancellations of one order restore its quantity to the stock at most
\* once (at most one of them is answered 200).
C4_RestoredOnce == \A o \in DOMAIN audit : audit[o].restored <= 1

\* C5: a cancellation by the owner of an order that is already cancelled is
\* answered AlreadyCancelled at once and changes neither the stock nor the
\* orders.
C5_AlreadyCancelled ==
    [][\A w \in Procs, u \in Callers, pk \in OrderKeys :
          (/\ CancelGet(w, u, pk)
           /\ pk \in DOMAIN orders
           /\ orders[pk].user = u
           /\ orders[pk].is_cancelled)
          => /\ resp' = Sent(w, Response(400, "AlreadyCancelled", "Order already cancelled"))
             /\ pc'[w] = "idle"
             /\ UNCHANGED <<stock, orders>>
             /\ \A o \in DOMAIN audit : audit'[o].restored = audit[o].restored]_vars

C5_Witness ==
    /\ resp.kind = "AlreadyCancelled"
    /\ \E o \in DOMAIN orders :
          orders[o].is_cancelled /\ audit[o].restored = 1 /\ seen["cancel"] = 1

\* C6: round trip.  When an order was placed and then cancelled and no other
\* request worked on its product meanwhile, the product's quantity is what
\* the placement read; and a cancellation that works alone is answered 200,
\* adds exactly the order's quantity to the product's stock and leaves the
\* order cancelled.
C6_RoundTripState ==
    \A o \in DOMAIN orders :
        LET p == orders[o].product IN
        (/\ audit[o].seq >= 0
         /\ touched[p] = audit[o].seq + 1
         /\ audit[o].restored = 1
         /\ ~\E w \in Procs : Touches(w, p))
        => /\ orders[o].is_cancelled
           /\ HasRow(stock, p)
           /\ QuantityOfProduct(stock, p) = audit[o].base

C6_CancelStep ==
    \A w \in Procs :
        (CancelSave(w) /\ Alone(w)) =>
            LET p == loc[w].preorder.product IN
            /\ resp' = Sent(w, [Response(200, "Ok", "Order cancelled")
                                  EXCEPT !.id = loc[w].pk])
            /\ HasRow(stock, p) /\ HasRow(stock', p)
            /\ QuantityOfProduct(stock', p) =
                   QuantityOfProduct(stock, p) + orders[loc[w].pk].quantity
            /\ orders'[loc[w].pk].is_cancelled

C6_RoundTrip == [](C6_RoundTripState) /\ [][C6_CancelStep]_vars

C6_Witness ==
    \E o \in DOMAIN orders :
        /\ audit[o].seq >= 0
        /\ touched[orders[o].product] = audit[o].seq + 1
        /\ audit[o].restored = 1
        /\ AllIdle
        /\ resp.kind = "Ok" /\ resp.id = o

\* C7: placement is all-or-nothing: no order exists whose quantity has not
\* been taken from its product's stock.
C7_PlacementAtomic == \A o \in DOMAIN orders : audit[o].confirmed

\* C8: cancellation is all-or-nothing: no order is marked cancelled while
\* its quantity has not been added back to its product's stock.
C8_CancellationAtomic ==
    \A o \in DOMAIN orders : orders[o].is_cancelled => audit[o].restored >= 1

\* C9: a placement answered InvalidInput, NotFound, Ambiguous or
\* InsufficientStock is answered by its first statement, and leaves every
\* stock row and the orders as they were.
PlaceFailures == {"InvalidInput", "NotFound", "Ambiguous", "InsufficientStock"}

PlaceStep(w) ==
    \/ \E v \in PlaceRequests : PlaceCheck(w, v)
    \/ PlaceCreate(w)
    \/ PlaceSave(w)

C9_FailureChangesNothing ==
    [][\A w \in Procs :
          (PlaceStep(w) /\ pc'[w] = "idle" /\ resp'.kind \in PlaceFailures)
          => /\ pc[w] = "idle"
             /\ UNCHANGED <<stock, orders>>]_vars

C9_Witness ==
    /\ resp.kind = "InsufficientStock"
    /\ resp.available = 4
    /\ Len(orders) = 1
    /\ AllIdle

\* C10: a placement that works alone and is answered 201 has created one
\* order, owned by the caller, for the resolved product and the requested
\* slot and quantity, not cancelled, and has taken exactly that quantity
\* from the product's stock.
C10_OrderAsRequested ==
    \A w \in Procs :
        pc[w] = "place_save" =>
            /\ loc[w].pk \in DOMAIN orders
            /\ orders[loc[w].pk].user = loc[w].user
            /\ orders[loc[w].pk].product = loc[w].product
            /\ orders[loc[w].pk].slot = loc[w].slot
            /\ orders[loc[w].pk].quantity = loc[w].qty
            /\ Alone(w) => ~orders[loc[w].pk].is_cancelled

C10_StockTaken ==
    \A o \in DOMAIN orders :
        LET p == orders[o].product IN
        (audit[o].confirmed /\ audit[o].seq >= 0 /\ touched[p] = audit[o].seq)
        => /\ ~orders[o].is_cancelled
           /\ HasRow(stock, p)
           /\ QuantityOfProduct(stock, p) = audit[o].base - orders[o].quantity

C10_OneOrderEach ==
    Len(orders) + Cardinality({w \in Procs : pc[w] = "place_create"}) = seen["place"]

C10_PlaceAlone == C10_OrderAsRequested /\ C10_StockTaken /\ C10_OneOrderEach

C10_Witness ==
    \E o \in DOMAIN orders :
        /\ audit[o].confirmed
        /\ audit[o].seq >= 0
        /\ touched[orders[o].product] = audit[o].seq
        /\ resp.kind = "Created" /\ resp.id = o
        /\ orders[o].quantity = 6

\* C11: cut-off rule.  The delivery date stored in an order is the date of
\* the placement plus one day when the placement's time is before 18:00:00,
\* plus two days from 18:00:00 on, whatever else the request carries.
C11_CutOff ==
    \A o \in DOMAIN orders :
        /\ req.now.time < HMS(18, 0, 0) => orders[o].delivery_date = req.now.date + 1
        /\ req.now.time >= HMS(18, 0, 0) => orders[o].delivery_date = req.now.date + 2

C11_Witness ==
    /\ resp.kind = "Created"
    /\ req.now = [date |-> Today + 3, time |-> HMS(18, 0, 0)]
    /\ orders[resp.id].delivery_date = Today + 5

\* the product name a placement asks for, and the products it names
AskedName == Strip(GetText(req.data.product_name))

SameName(p, name) == Lower(ProductName[p]) = Lower(name)

InName(p, name) ==
    \E i \in 1..Len(ProductName[p]) :
        /\ i + Len(name) - 1 <= Len(ProductName[p])
        /\ Lower(SubSeq(ProductName[p], i, i + Len(name) - 1)) = Lower(name)

ExactMatches == {p \in Products : SameName(p, AskedName)}

Candidates == {p \in Products : InName(p, AskedName)}

\* C12: disambiguation.  A customer's placement whose product name equals
\* no product's name, case ignored, is answered at once, creates no order
\* and changes no stock: Ambiguous (300) with exactly the products whose
\* name contains it, case ignored, when there are any ("Ban" gives Banana
\* and Bandaid), NotFound (404) when there are none.
C12_Disambiguation ==
    [][(ServePlace /\ IsCustomer(req.user) /\ AskedName # <<>> /\ ExactMatches = {})
       => /\ pc'["w1"] = "idle"
          /\ UNCHANGED <<stock, orders>>
          /\ IF Candidates # {}
             THEN /\ resp'.kind = "Ambiguous" /\ resp'.status = 300
                  /\ resp'.suggestions = Candidates
             ELSE /\ resp'.kind = "NotFound" /\ resp'.status = 404
                  /\ resp'.suggestions = {}
          /\ AskedName = <<"B","a","n">> => resp'.suggestions = {2, 4}
          /\ AskedName = <<"P","I","E">> => resp'.suggestions = {3}]_vars

C12_Witness ==
    /\ resp.kind = "Ambiguous"
    /\ AskedName = <<"B","a","n">>
    /\ resp.suggestions = {2, 4}
    /\ orders = <<>>
    /\ pc["w1"] = "idle"

\* C13: ownership isolation.  A customer's cancellation of an order that
\* another user owns, active or cancelled, is answered NotFound (404) at
\* once, exactly as a cancellation of an order id that does not exist, and
\* changes neither the orders nor the stock.
C13_OwnershipIsolation ==
    [][(/\ SeqCancel
        /\ IsCustomer(req'.user)
        /\ req'.pk \in DOMAIN orders
        /\ orders[req'.pk].user # req'.user)
       => /\ resp' = Sent("w1", Response(404, "NotFound",
                                         "Order not found or not authorized"))
          /\ resp' = Sent("w1", CancelOutcome(req'.user, Len(orders) + 1, orders))
          /\ pc'["w1"] = "idle"
          /\ UNCHANGED <<stock, orders>>]_vars

C13_Witness ==
    /\ req = CancelRequest("bob", 1)
    /\ Len(orders) = 1
    /\ orders[1].user = "alice"
    /\ orders[1].is_cancelled
    /\ resp.kind = "NotFound"
    /\ pc["w1"] = "idle"

\* C14: a placement that passes every check of its input, for a product
\* that has a stock row, is answered InsufficientStock (400) with the
\* quantity now in stock, creating no order and leaving the stock as it is,
\* when it asks for more than that quantity; when it asks for that quantity
\* or less it passes the stock check and goes on to create the order.
C14_InsufficientStock ==
    [][LET v == PlaceValidate(req.user, req.data, req.now) IN
       (ServePlace /\ v.ok /\ HasRow(stock, v.product))
       => IF v.qty > QuantityOfProduct(stock, v.product)
          THEN /\ resp'.kind = "InsufficientStock" /\ resp'.status = 400
               /\ resp'.available = QuantityOfProduct(stock, v.product)
               /\ pc'["w1"] = "idle"
               /\ UNCHANGED <<stock, orders>>
          ELSE /\ pc'["w1"] = "place_create"
               /\ resp' = resp]_vars

C14_Witness ==
    /\ resp.kind = "InsufficientStock"
    /\ resp.available = 5
    /\ QuantityOf(req.data.quantity).val = 6
    /\ orders = <<>>
    /\ stock[2] = [product |-> 2, quantity |-> 5]

\* the stock update in hand as its serializer reads it; it is acceptable
\* when the caller is an ops manager, the row exists, the body is valid and
\* the product it names has no other row
AdjustAsked == AdjustValidate(req.user, req.partial, req.data)

AdjustAcceptable ==
    /\ req.op = "adjust"
    /\ ~AdjustAsked.denied
    /\ req.pk \in StockIds
    /\ ~AdjustAsked.invalid
    /\ ~(AdjustAsked.has_product
         /\ \E r \in StockIds \ {req.pk} : stock[r].product = AdjustAsked.product)

WithinSlots(t) ==
    \/ HMS(8, 0, 0) <= t /\ t <= HMS(12, 0, 0)
    \/ HMS(18, 0, 0) <= t /\ t <= HMS(19, 0, 0)

C15_Answered ==
    (req.op = "adjust" /\ started = 1 /\ pc["w1"] = "idle") =>
        /\ resp.kind = "Ok" =>
              /\ WithinSlots(req.now.time)
              /\ AdjustAcceptable
              /\ AdjustAsked.has_quantity => stock[req.pk].quantity = AdjustAsked.quantity
        /\ (AdjustAcceptable /\ WithinSlots(req.now.time)) => resp.kind = "Ok"
        /\ (AdjustAcceptable /\ ~WithinSlots(req.now.time)) =>
              resp.kind = "OutOfWindow" /\ resp.status = 400

C15_NoWrite ==
    (req.op = "adjust" /\ ~WithinSlots(req.now.time)) => stock' = stock

NameMissing == AskedName = <<>>

Unresolved == ExactMatches = {}

QuantityBad ==
    LET q == QuantityOf(req.data.quantity) IN ~q.ok \/ q.val <= 0

SlotBad ==
    ~\E sl \in Slots : SLOT_CHOICES[sl] = Upper(Strip(GetText(req.data.slot)))

AddressBad ==
    LET a == Strip(GetText(req.data.delivery_address)) IN
    \/ a = <<>>
    \/ ~\E i \in DOMAIN a : IsAlpha(a[i])
    \/ \E i \in DOMAIN a : ~(IsAlnum(a[i]) \/ IsSpace(a[i]) \/ a[i] \in {",", ".", "-"})

StockBad ==
    \A p \in ExactMatches :
        p = Min(ExactMatches) =>
            \/ ~HasRow(stock, p)
            \/ QuantityOfProduct(stock, p) < QuantityOf(req.data.quantity).val

\* the number of the first check the request fails, 0 when it fails none
FirstFailing ==
    IF NameMissing THEN 1
    ELSE IF Unresolved THEN 2
    ELSE IF QuantityBad THEN 3
    ELSE IF SlotBad THEN 4
    ELSE IF AddressBad THEN 5
    ELSE IF StockBad THEN 6
    ELSE 0

\* the check an error response reports
ReportedCheck(r) ==
    IF r.error = "Provide product_name" THEN 1
    ELSE IF r.error \in {"No products found", "No exact match"} THEN 2
    ELSE IF r.error \in {"Quantity must be greater than zero.",
                         "Quantity must be a valid number."} THEN 3
    ELSE IF r.error = "Invalid slot." THEN 4
    ELSE IF r.error \in {"Delivery address cannot be empty.",
                         "Delivery address must contain at least one letter.",
                         "Delivery address can only contain letters, numbers, spaces, and ,.-"}
         THEN 5
    ELSE IF r.error \in {"Stock not found", "Insufficient stock"} THEN 6
    ELSE 0

\* C16: validation order.  A customer's placement is answered with the
\* error of the first check it fails, in the order product name, product
\* resolution, quantity, slot, delivery address, stock; it goes on to create
\* the order only when it fails none.
C16_ValidationOrder ==
    [][(ServePlace /\ IsCustomer(req.user))
       => IF FirstFailing = 0
          THEN pc'["w1"] = "place_create" /\ resp' = resp
          ELSE /\ pc'["w1"] = "idle"
               /\ resp'.status \in {300, 400, 404}
               /\ ReportedCheck(resp') = FirstFailing]_vars

C16_Witness ==
    /\ req.op = "place"
    /\ started = 1
    /\ resp.kind = "NotFound" /\ resp.error = "No products found"
    /\ QuantityBad /\ SlotBad /\ AddressBad

\* C17: order lifecycle.  In every step the orders that exist stay, with
\* every field but the cancellation flag as it was; a flag that is true
\* stays true; and a flag becomes true only in the flag-setting statement
\* of a cancellation sent by the order's owner.
C17_Lifecycle ==
    [][/\ Len(orders') >= Len(orders)
       /\ \A o \in DOMAIN orders :
             /\ [orders'[o] EXCEPT !.is_cancelled = FALSE]
                    = [orders[o] EXCEPT !.is_cancelled = FALSE]
             /\ orders[o].is_cancelled => orders'[o].is_cancelled
             /\ (~orders[o].is_cancelled /\ orders'[o].is_cancelled)
                   => \E w \in Procs :
                         /\ CancelFlag(w)
                         /\ loc[w].op = "cancel"
                         /\ loc[w].pk = o
                         /\ loc[w].user = orders[o].user]_vars

C17_Witness ==
    /\ AllIdle
    /\ Len(orders) = 2
    /\ orders[1].is_cancelled /\ audit[1].restored = 1
    /\ ~orders[2].is_cancelled /\ audit[2].confirmed

\* the orders a report over the dates lo..hi counts, and their products
Counted(lo, hi) ==
    {o \in DOMAIN orders :
        /\ ~orders[o].is_cancelled
        /\ lo <= orders[o].delivery_date /\ orders[o].delivery_date <= hi}

\* rep has one entry per product with a counted order, carrying the total
\* quantity of the product's counted orders, largest total first
IsTotals(rep, lo, hi) ==
    LET prods == {orders[o].product : o \in Counted(lo, hi)} IN
    /\ Len(rep) = Cardinality(prods)
    /\ {rep[i].product : i \in DOMAIN rep} = prods
    /\ \A i \in DOMAIN rep :
          rep[i].quantity =
              SumQuantity({o \in Counted(lo, hi) : orders[o].product = rep[i].product})
    /\ \A i, j \in DOMAIN rep : i < j => rep[i].quantity >= rep[j].quantity

\* C18: a report asked by an ops manager with two valid dates is answered
\* 200 with one entry per product, the total quantity of its non-cancelled
\* orders delivered between the two dates (taken in either order), sorted
\* by total, largest first.
C18_TopProducts ==
    IF req.op = "report" /\ IsOpsManager(req.user)
    THEN LET s == ParseDate(req.data.start)
             e == ParseDate(req.data.end)
             lo == IF s.val <= e.val THEN s.val ELSE e.val
             hi == IF s.val <= e.val THEN e.val ELSE s.val
         IN  (s.ok /\ e.ok) =>
                 /\ resp.kind = "Ok" /\ resp.status = 200
                 /\ IsTotals(resp.report, lo, hi)
    ELSE TRUE

\* the slot name a listing asks for
AskedSlot == Upper(Strip(GetText(req.data.slot)))

C19_Listed ==
    IF req.op = "list" /\ IsOpsManager(req.user)
    THEN (\E sl \in Slots : SLOT_CHOICES[sl] = AskedSlot) =>
            /\ resp.kind = "Ok" /\ resp.status = 200
            /\ resp.listed = {o \in DOMAIN orders :
                                 /\ SLOT_CHOICES[orders[o].slot] = AskedSlot
                                 /\ ~orders[o].is_cancelled}
    ELSE TRUE

C19_ReadOnly == SeqList => UNCHANGED <<stock, orders, pc, loc>>

\* C19: a listing asked by an ops manager for one of the three slots is
\* answered 200 with exactly the orders of that slot that are not
\* cancelled, and a listing changes neither the stock nor the orders.
C19_ListBySlot == [](C19_Listed) /\ [][C19_ReadOnly]_vars

C19_Witness ==
    /\ req.op = "list" /\ req.user = "olga"
    /\ resp.kind = "Ok"
    /\ Len(orders) = 1
    /\ orders[1].is_cancelled
    /\ SLOT_CHOICES[orders[1].slot] = AskedSlot
    /\ resp.listed = {}

C20_Resolved ==
    (ServePlace /\ IsCustomer(req.user) /\ AskedName # <<>> /\ ExactMatches # {})
    => /\ resp'.kind # "Ambiguous"
       /\ resp'.status # 300
       /\ resp'.error # "No products found"
       /\ resp'.error = "Stock not found" =>
             \E p \in ExactMatches : RowsOf(stock, p) = {}
       /\ resp'.suggestions = {}
       /\ pc'["w1"] = "place_create" =>
             /\ loc'["w1"].product \in ExactMatches
             /\ AskedName = <<"a","p","p","l","e">> => loc'["w1"].product = 1
       /\ resp'.kind = "InsufficientStock" =>
             \E p \in ExactMatches : resp'.available = QuantityOfProduct(stock, p)

C20_Ordered ==
    (orders # <<>>) => /\ ExactMatches # {}
                       /\ orders[1].product \in ExactMatches

\* C20: exact-match resolution.  A customer's placement whose product name
\* equals a product's name, case ignored, goes on with that product and is
\* never answered Ambiguous, whatever other products contain the name:
\* "apple" with Apple and Apple Pie in the catalogue orders Apple.
C20_ExactMatch == [](C20_Ordered) /\ [][C20_Resolved]_vars

C20_Witness ==
    /\ resp.kind = "Created"
    /\ AskedName = <<"a","p","p","l","e">>
    /\ Candidates = {1, 3}
    /\ Len(orders) = 1
    /\ orders[1].product = 1

\* C21: a customer's placement whose product name is missing, empty or only
\* spaces is answered InvalidInput (400, "Provide product_name") at once,
\* never NotFound or Ambiguous although every product's name contains the
\* empty text, and changes neither the orders nor the stock.
C21_NameRequired ==
    [][(ServePlace /\ IsCustomer(req.user) /\ NameMissing)
       => /\ resp' = Sent("w1", Response(400, "InvalidInput", "Provide product_name"))
          /\ resp'.kind \notin {"NotFound", "Ambiguous"}
          /\ resp'.suggestions = {}
          /\ pc'["w1"] = "idle"
          /\ UNCHANGED <<stock, orders>>]_vars

C21_Witness ==
    /\ req.op = "place" /\ started = 1
    /\ IsCustomer(req.user)
    /\ req.data.product_name = Field(<<" ">>)
    /\ Candidates = Products
    /\ ~QuantityBad /\ ~SlotBad /\ ~AddressBad
    /\ resp.kind = "InvalidInput" /\ resp.error = "Provide product_name"
    /\ orders = <<>>

\* the results the operations are declared with, and the refusal of a
\* caller without the role
DeclaredResults ==
    { "none", "Denied", "Created", "InvalidInput", "NotFound", "Ambiguous",
      "InsufficientStock", "Ok", "AlreadyCancelled", "OutOfWindow" }

C22_Terminates == \A w \in Procs : (pc[w] # "idle") ~> (pc[w] = "idle")

C22_Declared == resp.kind \in DeclaredResults

\* C22: under weak fairness of each handler's statements, every placement,
\* cancellation and stock update that has begun is answered in the end,
\* whatever the other requests do, and every answer is one of the declared
\* results.
C22_Completes == C22_Terminates /\ [](C22_Declared)

\* product q's StockBalance row is, between the two states, the same row
\* with the same quantity, or absent in both
SameRecord(q) ==
    /\ RowsOf(stock', q) = RowsOf(stock, q)
    /\ \A s \in RowsOf(stock, q) : stock'[s] = stock[s]

\* worker w takes a statement of a cancellation
CancelStep(w) == CancelFlag(w) \/ CancelStockGet(w) \/ CancelSave(w)

C23_Snapshot ==
    \A o \in DOMAIN orders :
        /\ o \in DOMAIN orders'
        /\ orders'[o].product = orders[o].product
        /\ orders'[o].user = orders[o].user
        /\ orders'[o].slot = orders[o].slot
        /\ orders'[o].quantity = orders[o].quantity
        /\ orders'[o].delivery_date = orders[o].delivery_date

C23_CancelFrame ==
    \A w \in Procs :
        CancelStep(w) =>
            /\ Len(orders') = Len(orders)
            /\ \A o \in DOMAIN orders : o # loc[w].pk => orders'[o] = orders[o]
            /\ [orders'[loc[w].pk] EXCEPT !.is_cancelled = FALSE]
                  = [orders[loc[w].pk] EXCEPT !.is_cancelled = FALSE]
            /\ \A q \in Products \ {orders[loc[w].pk].product} : SameRecord(q)

\* C23: order snapshot.  No step of a placement, a cancellation or a stock
\* update changes the product, owner, slot, quantity or delivery date of an
\* order that exists; the statements of a cancellation change nothing but
\* the cancellation flag of its order and the StockBalance of that order's
\* product.
C23_OrderSnapshot == [][C23_Snapshot /\ C23_CancelFrame]_vars

\* the request is valid but for the stock of the product its name resolves to
ValidButStock == ~NameMissing /\ ~Unresolved /\ ~QuantityBad /\ ~SlotBad /\ ~AddressBad

\* C24: a customer's placement that is valid in every field and whose
\* product name equals the name of a product without a StockBalance row is
\* answered NotFound (404, "Stock not found") at once and creates no order.
C24_NoRecord ==
    [][(/\ ServePlace /\ IsCustomer(req.user) /\ ValidButStock
        /\ ~HasRow(stock, Min(ExactMatches)))
       => /\ resp' = Sent("w1", Response(404, "NotFound", "Stock not found"))
          /\ pc'["w1"] = "idle"
          /\ UNCHANGED <<stock, orders>>]_vars

C24_Witness ==
    /\ req.op = "place" /\ started = 1
    /\ IsCustomer(req.user) /\ ValidButStock
    /\ ExactMatches = {2} /\ ~HasRow(stock, 2)
    /\ resp.kind = "NotFound" /\ resp.error = "Stock not found"
    /\ orders = <<>>

\* The operations as single indivisible steps on a StockBalance table.
\* a placement of q units of product p
PlaceOn(stk, p, q) ==
    IF HasRow(stk, p) /\ QuantityOfProduct(stk, p) >= q
    THEN [stk EXCEPT ![Min(RowsOf(stk, p))].quantity = @ - q]
    ELSE stk

\* the cancellation of an order of q units of product p
CancelOn(stk, p, q) ==
    IF HasRow(stk, p)
    THEN [stk EXCEPT ![Min(RowsOf(stk, p))].quantity = @ + q]
    ELSE stk

\* the stock update with validated body v of row pk
AdjustOn(stk, pk, v) ==
    LET l == [stock |-> [id |-> pk, product |-> stk[pk].product,
                         quantity |-> stk[pk].quantity],
              data |-> v]
        taken == /\ v.has_product
                 /\ \E s \in StockIds \ {pk} : stk[s].product = v.product
    IN  IF v.invalid \/ taken THEN stk ELSE SaveStock(stk, Updated(l)).stock

\* the tables that the order's placement, its cancellation when one went to
\* work, and the stock update leave when they run one after the other, the
\* update first, last, or between the two
SerialTables ==
    LET p == orders[1].product
        q == orders[1].quantity
        v == AdjustValidate(req.user, req.partial, req.data)
        cancelled == seen["cancel"] = 1
        Orders(stk) ==
            IF PlaceOn(stk, p, q) = stk /\ q > 0 THEN stk
            ELSE IF cancelled THEN CancelOn(PlaceOn(stk, p, q), p, q)
            ELSE PlaceOn(stk, p, q)
    IN  { Orders(AdjustOn(InitStock, req.pk, v)),
          AdjustOn(Orders(InitStock), req.pk, v) }
        \cup
        { CancelOn(AdjustOn(PlaceOn(InitStock, p, q), req.pk, v), p, q) :
            x \in {y \in {1} : cancelled /\ PlaceOn(InitStock, p, q) # InitStock} }

\* C25: a stock update that sets a row's quantity while a placement, or the
\* cancellation of the order placed, is being served is not lost: once all
\* of them are answered, the StockBalance table is the one that the same
\* operations leave when they run one after the other in some order.
C25_AdjustNotLost ==
    (/\ AllIdle
     /\ req.op = "adjust" /\ req.partial /\ ~req.data.product_id.present
     /\ req.data.quantity.present
     /\ seen["adjust"] = 1
     /\ Len(orders) = 1)
    => stock \in SerialTables

\* worker w takes a statement of a placement after its first
PlaceWrite(w) == PlaceCreate(w) \/ PlaceSave(w)

C26_PlaceFrame ==
    \A w \in Procs :
        PlaceWrite(w) =>
            /\ \A o \in DOMAIN orders : orders'[o] = orders[o]
            /\ \A q \in Products \ {loc[w].product} : SameRecord(q)

C26_CancelFrame ==
    \A w \in Procs :
        CancelStep(w) =>
            /\ \A o \in DOMAIN orders \ {loc[w].pk} : orders'[o] = orders[o]
            /\ \A q \in Products \ {loc[w].preorder.product} : SameRecord(q)

\* C26: the statements of a placement of product p, and of a cancellation
\* of an order of product p, leave every order but their own and the
\* StockBalance of every product but p as they were.
C26_OtherProductsUntouched == [][C26_PlaceFrame /\ C26_CancelFrame]_vars

C27_Stored ==
    \A o \in DOMAIN orders :
        /\ orders[o].quantity \in Nat \ {0}
        /\ orders[o].slot \in Slots
        /\ SLOT_CHOICES[orders[o].slot] \in
              { <<"M","O","R","N","I","N","G">>,
                <<"A","F","T","E","R","N","O","O","N">>,
                <<"E","V","E","N","I","N","G">> }

C27_Rejected ==
    (ServePlace /\ IsCustomer(req.user) /\ (QuantityBad \/ SlotBad))
    => /\ pc'["w1"] = "idle"
       /\ UNCHANGED <<stock, orders>>
       /\ resp'.kind # "Created"
       /\ (NameMissing \/ ~Unresolved)
             => resp'.kind = "InvalidInput" /\ resp'.status = 400
       /\ (~NameMissing /\ ~Unresolved /\ QuantityBad)
             => resp'.error \in {"Quantity must be greater than zero.",
                                 "Quantity must be a valid number."}
       /\ (~NameMissing /\ ~Unresolved /\ ~QuantityBad)
             => resp'.error = "Invalid slot."

AddressText == Strip(GetText(req.data.delivery_address))

AddressEmpty == AddressText = <<>>

AddressNoLetter == ~\E i \in DOMAIN AddressText : IsAlpha(AddressText[i])

AddressOtherCharacter ==
    \E i \in DOMAIN AddressText :
        /\ ~IsAlpha(AddressText[i]) /\ ~IsDigit(AddressText[i])
        /\ ~IsSpace(AddressText[i])
        /\ AddressText[i] \notin {",", ".", "-"}

\* the request passes the checks made before the address is looked at
ValidBeforeAddress == ~NameMissing /\ ~Unresolved /\ ~QuantityBad /\ ~SlotBad

C28_Stored ==
    \A o \in DOMAIN orders :
        LET a == orders[o].delivery_address IN
        /\ a # <<>>
        /\ \E i \in DOMAIN a : IsAlpha(a[i])
        /\ \A i \in DOMAIN a :
              IsAlpha(a[i]) \/ IsDigit(a[i]) \/ IsSpace(a[i]) \/ a[i] \in {",", ".", "-"}

C28_Rejected ==
    (/\ ServePlace /\ IsCustomer(req.user)
     /\ (AddressEmpty \/ AddressNoLetter \/ AddressOtherCharacter))
    => /\ pc'["w1"] = "idle"
       /\ UNCHANGED <<stock, orders>>
       /\ resp'.kind # "Created"
       /\ ValidBeforeAddress =>
             /\ resp'.kind = "InvalidInput" /\ resp'.status = 400
             /\ resp'.error =
                  IF AddressEmpty THEN "Delivery address cannot be empty."
                  ELSE IF AddressNoLetter
                       THEN "Delivery address must contain at least one letter."
                  ELSE "Delivery address can only contain letters, numbers, spaces, and ,.-"

CallerHas(role) == req.user \in Users /\ RoleOf(req.user) = role

\* a request arrives whose caller lacks the role its operation asks for
ArrivesWithoutRole ==
    /\ started' = started + 1
    /\ \/ req'.op \in {"place", "cancel"}
          /\ ~(req'.user \in Users /\ RoleOf(req'.user) = "customer")
       \/ req'.op = "adjust"
          /\ ~(req'.user \in Users /\ RoleOf(req'.user) = "ops_manager")

C29_Refused ==
    ArrivesWithoutRole
    => /\ resp'.kind = "Denied"
       /\ resp'.status = (IF req'.user \in Users THEN 403 ELSE 401)
       /\ pc' = pc
       /\ UNCHANGED <<stock, orders>>

C29_Writes ==
    ((orders' # orders) \/ (stock' # stock))
    => /\ req' = req
       /\ \/ /\ req.op \in {"place", "cancel"}
             /\ CallerHas("customer")
             /\ PlaceCreate("w1") \/ PlaceSave("w1") \/ CancelFlag("w1") \/ CancelSave("w1")
          \/ /\ req.op = "adjust"
             /\ CallerHas("ops_manager")
             /\ AdjustSave("w1")
             /\ orders' = orders

\* C29: role gating.  A placement or cancellation sent by a caller who is
\* not logged in as a customer, and a stock update sent by a caller who is
\* not logged in as an ops manager, is refused at once (401 or 403) and
\* changes nothing; every change of an order or of a StockBalance row is
\* made by the request of a caller with the role of its operation.
C29_RoleGating == [][C29_Refused /\ C29_Writes]_vars

C29_Witness ==
    /\ req.op = "cancel" /\ req.user = "olga" /\ req.pk = 1
    /\ resp.kind = "Denied" /\ resp.status = 403
    /\ Len(orders) = 1 /\ ~orders[1].is_cancelled
    /\ orders[1].user = "alice"
    /\ pc["w1"] = "idle"

====
